---- MODULE Spec2Model ----
(***************************************************************************)
(* Model of src/active_units_api.py: the Flask service that serves the     *)
(* active-units / active-talkgroups snapshots through a 5 s result cache   *)
(* and tracks visitors in a 300 s sliding window.                          *)
(*                                                                         *)
(* Time is counted in whole seconds.  Strings are sequences of character   *)
(* codes (32 is the space, 9 the tab).  Python's None for a local is the   *)
(* empty sequence and a value v is <<v>>; a dict is a function whose       *)
(* DOMAIN is its key set.                                                  *)
(***************************************************************************)
EXTENDS Integers, Sequences, FiniteSets, TLC

VARIABLES now, cache, visitors, calls, units, talkgroups, systems,
          pc, req, scen, served, ticks

vars == <<now, cache, visitors, calls, units, talkgroups, systems,
          pc, req, scen, served, ticks>>

\* ---------------------------------------------------------------- constants
CACHE_TIMEOUT == 5
VISITOR_TIMEOUT == 300
MAX_AGE == 3600
LIMIT == 200

\* ------------------------------------------------------------------- bounds
NThreads == 2
MaxTicks == 2
StartTime == 4000
MaxReqs == 3
MaxConcReqs == 2
MaxAggCalls == 3

Threads == 1 .. NThreads
IPs == {"A", "B"}
Keys == {"active_units", "active_talkgroups"}

\* ------------------------------------------------------------------ helpers
Min(S) == CHOOSE x \in S : \A y \in S : x <= y
Max(S) == CHOOSE x \in S : \A y \in S : x >= y

\* dict[k] = v
DictSet(d, k, v) == [x \in (DOMAIN d) \cup {k} |-> IF x = k THEN v ELSE d[x]]
\* del dict[k]
DictDel(d, k) == [x \in (DOMAIN d) \ {k} |-> d[x]]

RECURSIVE SeqLess(_, _)
\* a < b for two strings, as SQLite's BINARY collation compares them
SeqLess(a, b) ==
    IF a = <<>> THEN b # <<>>
    ELSE IF b = <<>> THEN FALSE
    ELSE IF Head(a) # Head(b) THEN Head(a) < Head(b)
    ELSE SeqLess(Tail(a), Tail(b))

\* ------------------------------------------------------------ SQL: TRIM(X)
RECURSIVE LTrim(_)
LTrim(s) == IF s # <<>> /\ Head(s) = 32 THEN LTrim(Tail(s)) ELSE s

RECURSIVE RTrim(_)
RTrim(s) ==
    IF s # <<>> /\ s[Len(s)] = 32 THEN RTrim(SubSeq(s, 1, Len(s) - 1)) ELSE s

\* SQLite's one-argument TRIM removes spaces (0x20), and only spaces, from
\* both ends
TRIM(s) == RTrim(LTrim(s))

\* a label column value: SQL NULL, or a string
NullLabel == [null |-> TRUE, s |-> <<>>]
Str(s) == [null |-> FALSE, s |-> s]

\* ---------------------------------------------------- get_system_name_map
NameColumns == <<"name", "label", "shortName", "short_name">>

\* next((c for c in (...) if c in cols), None): the index of the first
\* priority column present, 0 for None
NameCol(cols) ==
    IF \E i \in 1 .. Len(NameColumns) : NameColumns[i] \in cols
    THEN Min({i \in 1 .. Len(NameColumns) : NameColumns[i] \in cols})
    ELSE 0

\* systems: [cols: the table's columns (empty when the table is missing),
\*           raises: the SELECT raises, rows: id -> [column -> value]]
get_system_name_map(sys) ==
    IF sys.raises THEN <<>>
    ELSE IF NameCol(sys.cols) = 0 THEN <<>>
    ELSE [i \in DOMAIN sys.rows |-> sys.rows[i][NameColumns[NameCol(sys.cols)]]]

\* the lookup with a fixed default
SystemName_bare(names, system_id) ==
    IF system_id \in DOMAIN names
    THEN [text |-> names[system_id], sys |-> 0]
    ELSE [text |-> "Unknown", sys |-> 0]

\* system_names.get(system_id, f"System {system_id}")
SystemName(names, system_id) ==
    IF system_id \in DOMAIN names
    THEN [text |-> names[system_id], sys |-> 0]
    ELSE [text |-> "System ", sys |-> system_id]

\* ------------------------------------------------------- the SQL aggregate
EntityId(kind, c) == IF kind = "units" THEN c.source ELSE c.talkgroup
LabelTable(kind, u, t) == IF kind = "units" THEN u ELSE t

\* FROM calls c JOIN labels u ON u.systemId = c.system AND u.id = c.<entity>
Join(kind, cs, tbl) ==
    UNION {{<<c, u>> : u \in {v \in tbl : v.systemId = c.system
                                          /\ v.id = EntityId(kind, c)}} : c \in cs}

\* WHERE c.dateTime >= ? AND u.label IS NOT NULL AND TRIM(u.label) != ''
Where(p, cutoff) ==
    /\ p[1].dateTime >= cutoff
    /\ ~p[2].label.null
    /\ TRIM(p[2].label.s) # <<>>

Selected(kind, cs, tbl, cutoff) == {p \in Join(kind, cs, tbl) : Where(p, cutoff)}

\* GROUP BY u.label, with MIN / MAX / COUNT(*) per group
GroupRow(kind, rows, lbl) ==
    [id |-> Min({EntityId(kind, p[1]) : p \in rows}),
     last_seen_dt |-> Max({p[1].dateTime : p \in rows}),
     system_id |-> Min({p[1].system : p \in rows}),
     label |-> lbl,
     seen_count |-> Cardinality(rows)]

GroupBy(kind, sel) ==
    {GroupRow(kind, {p \in sel : p[2].label.s = lbl}, lbl) :
        lbl \in {p[2].label.s : p \in sel}}

\* the order written ASC
Before_asc(r, q) ==
    \/ r.last_seen_dt < q.last_seen_dt
    \/ r.last_seen_dt = q.last_seen_dt /\ SeqLess(r.label, q.label)

\* ORDER BY last_seen_dt DESC: r comes before q.  Rows of equal last_seen_dt
\* keep the order the GROUP BY produced them in, ascending label.
Before(r, q) ==
    \/ r.last_seen_dt > q.last_seen_dt
    \/ r.last_seen_dt = q.last_seen_dt /\ SeqLess(r.label, q.label)

\* the rows of S from first to last: a row's place is one more than the
\* number of rows that come before it
OrderBy(S) ==
    LET place == [r \in S |-> 1 + Cardinality({q \in S : Before(q, r)})]
    IN [i \in 1 .. Cardinality(S) |-> CHOOSE r \in S : place[r] = i]

\* the limit keeping the last n rows
Limit_last(s, n) == IF Len(s) <= n THEN s ELSE SubSeq(s, Len(s) - n + 1, Len(s))

\* LIMIT n
Limit(s, n) == IF Len(s) <= n THEN s ELSE SubSeq(s, 1, n)

\* cur.fetchall() of the aggregate query
Fetch(kind, cs, tbl, cutoff) ==
    Limit(OrderBy(GroupBy(kind, Selected(kind, cs, tbl, cutoff))), LIMIT)

\* datetime.fromisoformat(raw), UTC assumed when no zone, .isoformat()
LastSeenIso(raw) == [t |-> raw, tz |-> "+00:00"]

\* the dict appended to results for one row
Result(row, names) ==
    [id |-> row.id,
     label |-> row.label,
     system_id |-> row.system_id,
     system_name |-> SystemName(names, row.system_id),
     seen_count |-> row.seen_count,
     last_seen_iso |-> LastSeenIso(row.last_seen_dt),
     agency |-> SystemName(names, row.system_id)]

Results(rows, names) == [i \in 1 .. Len(rows) |-> Result(rows[i], names)]

\* ------------------------------------------------------------ cache helpers
\* get_cached_data with the freshness test written <=
get_cached_data_le(c, key, t) ==
    IF key \in DOMAIN c /\ t - c[key].timestamp <= CACHE_TIMEOUT
    THEN <<c[key].data>>
    ELSE <<>>

\* get_cached_data(key) at time t: <<data>>, or <<>> for None
get_cached_data(c, key, t) ==
    IF key \in DOMAIN c /\ t - c[key].timestamp < CACHE_TIMEOUT
    THEN <<c[key].data>>
    ELSE <<>>

\* a put that stamps an existing entry and leaves its data
set_cached_data_torn(c, key, data, t) ==
    DictSet(c, key, [timestamp |-> t,
                     data |-> IF key \in DOMAIN c THEN c[key].data ELSE data])

\* set_cached_data(key, data) at time t
set_cached_data(c, key, data, t) ==
    DictSet(c, key, [timestamp |-> t, data |-> data])

\* Python truth of "if cached:": None and the empty list are both false
Truthy(cached) == cached # <<>> /\ cached[1] # <<>>

\* ------------------------------------------------------------- the requests
\* ip = request.headers.get('CF-Connecting-IP', request.remote_addr);
\* cf is <<>> when the header is absent
ClientIp(cf, remote) == IF cf # <<>> THEN cf[1] ELSE remote

\* the expiry test written >=
Expired_ge(tnow, last_seen) == tnow - last_seen >= VISITOR_TIMEOUT

\* the expiry test with its operands swapped
Expired_swapped(tnow, last_seen) == last_seen - tnow > VISITOR_TIMEOUT

\* expired: now - last_seen > VISITOR_TIMEOUT
Expired(tnow, last_seen) == tnow - last_seen > VISITOR_TIMEOUT

\* the body of a response: a JSON list, or {"error": ...}; "unhandled" is
\* the page Flask answers an uncaught exception with
Body(data) == [error |-> "", data |-> data]
ErrorBody(e) == [error |-> e, data |-> <<>>]

NoStatus == [active_visitors_5min |-> 0, active_ips |-> {}, cache_active |-> FALSE]

IdleReq ==
    [kind |-> "", ip |-> "", tnow |-> 0, pre |-> <<>>, size0 |-> 0,
     visited |-> {}, expired |-> <<>>, swept |-> 0, count |-> 0,
     tget |-> 0, entry |-> <<>>, cached |-> <<>>, cutoff |-> 0,
     results |-> <<>>, attempts |-> 0, failed |-> FALSE, raised |-> "",
     status |-> 0, body |-> Body(<<>>), report |-> NoStatus]

\* an exception no handler catches: Flask answers 500 with its error page
Unhandled(r, exc) ==
    [r EXCEPT !.raised = exc, !.status = 500, !.body = ErrorBody("unhandled")]

AllIdle == \A t \in Threads : pc[t] = "idle"

\* the worker thread the server hands the next request to
FreeThread == CHOOSE t \in Threads : pc[t] = "idle"

\* a request arrives at an idle worker thread; served counts the requests
\* of the run, up to MaxReqs
Arrive(th) ==
    /\ pc[th] = "idle"
    /\ served' = IF served < MaxReqs THEN served + 1 ELSE served

\* lines 71-74 of track_visitor, entered from active_units (line 101):
\* the caller's identity, now = time.time(), _visitors[ip] = now
UnitsTouch(th, cf, remote) ==
    /\ Arrive(th)
    /\ LET ip == ClientIp(cf, remote)
       IN /\ visitors' = DictSet(visitors, ip, now)
          /\ req' = [req EXCEPT ![th] =
                 [IdleReq EXCEPT !.kind = "units", !.ip = ip, !.tnow = now,
                                 !.pre = visitors]]
    /\ pc' = [pc EXCEPT ![th] = "tv_begin"]
    /\ UNCHANGED <<ticks, now, cache, calls, units, talkgroups, systems, scen>>

\* line 77, _visitors.items(): the list comprehension's iterator is created
\* and remembers the size the dict has
TvBegin(th) ==
    /\ pc[th] = "tv_begin"
    /\ req' = [req EXCEPT ![th].size0 = Cardinality(DOMAIN visitors)]
    /\ pc' = [pc EXCEPT ![th] = "tv_iter"]
    /\ UNCHANGED <<ticks, now, cache, visitors, calls, units, talkgroups, systems,
                   scen, served>>

\* line 77, one step of the iteration over _visitors.items(): the iterator
\* raises RuntimeError when the dict's size is not the size it started with,
\* else yields the next item, else ends
TvIter(th) ==
    /\ pc[th] = "tv_iter"
    /\ LET r == req[th]
           left == (DOMAIN visitors) \ r.visited
       IN IF Cardinality(DOMAIN visitors) # r.size0
          THEN /\ req' = [req EXCEPT ![th] = Unhandled(r, "RuntimeError")]
               /\ pc' = [pc EXCEPT ![th] = "done"]
          ELSE IF left # {}
          THEN LET user_ip == CHOOSE x \in left : TRUE
               IN /\ req' = [req EXCEPT
                        ![th].visited = r.visited \cup {user_ip},
                        ![th].expired =
                            IF Expired(r.tnow, visitors[user_ip])
                            THEN Append(r.expired, user_ip) ELSE r.expired]
                  /\ pc' = pc
          ELSE /\ req' = [req EXCEPT ![th].swept =
                     IF r.expired = <<>> THEN Cardinality(DOMAIN visitors)
                     ELSE r.swept]
               /\ pc' = [pc EXCEPT ![th] =
                     IF r.expired = <<>> THEN "tv_ret" ELSE "tv_del"]
    /\ UNCHANGED <<ticks, now, cache, visitors, calls, units, talkgroups, systems,
                   scen, served>>

\* lines 78-79, one deletion: del _visitors[user_ip] raises KeyError when
\* the key is gone
TvDel(th) ==
    /\ pc[th] = "tv_del"
    /\ LET r == req[th]
           user_ip == Head(r.expired)
       IN IF user_ip \notin DOMAIN visitors
          THEN /\ req' = [req EXCEPT ![th] = Unhandled(r, "KeyError")]
               /\ pc' = [pc EXCEPT ![th] = "done"]
               /\ visitors' = visitors
          ELSE /\ visitors' = DictDel(visitors, user_ip)
               /\ req' = [req EXCEPT ![th].expired = Tail(r.expired),
                                     ![th].swept =
                                         IF Tail(r.expired) = <<>>
                                         THEN Cardinality(DOMAIN visitors')
                                         ELSE r.swept]
               /\ pc' = [pc EXCEPT ![th] =
                     IF Tail(r.expired) = <<>> THEN "tv_ret" ELSE "tv_del"]
    /\ UNCHANGED <<ticks, now, cache, calls, units, talkgroups, systems, scen, served>>

\* scen follows the presence example of the specification: stage k says that
\* the touches of the run so far are the first k of touch("A") at t0,
\* touch("B") at t0 + 10, touch("A") at t0 + 400, and at stage 3 holds what
\* the third returned and the map it left; stage -1 is any other run
ScenStart == [stage |-> 0, t0 |-> 0, count |-> 0, after |-> <<>>]
ScenOff == [stage |-> -1, t0 |-> 0, count |-> 0, after |-> <<>>]

Observe(sc, ip, t, n, map) ==
    IF sc.stage = 0 /\ ip = "A" THEN [ScenStart EXCEPT !.stage = 1, !.t0 = t]
    ELSE IF sc.stage = 1 /\ ip = "B" /\ t = sc.t0 + 10
    THEN [sc EXCEPT !.stage = 2]
    ELSE IF sc.stage = 2 /\ ip = "A" /\ t = sc.t0 + 400
    THEN [stage |-> 3, t0 |-> sc.t0, count |-> n, after |-> map]
    ELSE ScenOff

\* line 82: return ip, len(_visitors)
TvRet(th) ==
    /\ pc[th] = "tv_ret"
    /\ LET n == Cardinality(DOMAIN visitors)
       IN /\ req' = [req EXCEPT ![th].count = n]
          /\ scen' = Observe(scen, req[th].ip, req[th].tnow, n, visitors)
    /\ pc' = [pc EXCEPT ![th] = "get"]
    /\ UNCHANGED <<ticks, now, cache, visitors, calls, units, talkgroups, systems, served>>

\* lines 107-111 and 183-185: cached = get_cached_data(key); if cached:
\* return jsonify(cached)
CacheKey(kind) == IF kind = "units" THEN "active_units" ELSE "active_talkgroups"

CheckCache(r, kind) ==
    LET key == CacheKey(kind)
        cached == get_cached_data(cache, key, now)
        r1 == [r EXCEPT !.kind = kind, !.tget = now,
                        !.entry = IF key \in DOMAIN cache THEN <<cache[key]>> ELSE <<>>,
                        !.cached = cached]
    IN IF Truthy(cached)
       THEN [r1 EXCEPT !.status = 200, !.body = Body(cached[1])]
       ELSE r1

UnitsGet(th) ==
    /\ pc[th] = "get"
    /\ LET r == CheckCache(req[th], "units")
       IN /\ req' = [req EXCEPT ![th] = r]
          /\ pc' = [pc EXCEPT ![th] = IF r.status = 200 THEN "done" ELSE "query"]
    /\ UNCHANGED <<ticks, now, cache, visitors, calls, units, talkgroups, systems,
                   scen, served>>

\* active_talkgroups recording the caller as active_units does
TalkgroupsGet_touch(th) ==
    /\ Arrive(th)
    /\ LET r == CheckCache(IdleReq, "talkgroups")
       IN /\ req' = [req EXCEPT ![th] = r]
          /\ pc' = [pc EXCEPT ![th] = IF r.status = 200 THEN "done" ELSE "query"]
    /\ visitors' = DictSet(visitors, "A", now)
    /\ UNCHANGED <<ticks, now, cache, calls, units, talkgroups, systems, scen>>

TalkgroupsGet(th) ==
    /\ Arrive(th)
    /\ LET r == CheckCache(IdleReq, "talkgroups")
       IN /\ req' = [req EXCEPT ![th] = r]
          /\ pc' = [pc EXCEPT ![th] = IF r.status = 200 THEN "done" ELSE "query"]
    /\ UNCHANGED <<ticks, now, cache, visitors, calls, units, talkgroups, systems, scen>>

\* the handler answering with the exception's text
OnStoreError_leak(r) == [r EXCEPT !.status = 500, !.body = ErrorBody("diagnostic")]

\* lines 174-176 and 245-247: except Exception: log, then
\* return jsonify({"error": "internal_error"}), 500
OnStoreError(r) == [r EXCEPT !.status = 500, !.body = ErrorBody("internal_error")]

\* the handler caching an empty list when the store fails
Query_cachefail(th, fails) ==
    /\ pc[th] = "query"
    /\ LET r == req[th]
           cutoff == now - MAX_AGE
           names == get_system_name_map(systems)
           rows == Fetch(r.kind, calls, LabelTable(r.kind, units, talkgroups), cutoff)
       IN IF fails
          THEN /\ req' = [req EXCEPT ![th] =
                     OnStoreError([r EXCEPT !.cutoff = cutoff,
                                            !.attempts = r.attempts + 1,
                                            !.failed = TRUE])]
               /\ pc' = [pc EXCEPT ![th] = "done"]
               /\ cache' = set_cached_data(cache, CacheKey(r.kind), <<>>, now)
          ELSE /\ req' = [req EXCEPT ![th].cutoff = cutoff,
                                     ![th].attempts = r.attempts + 1,
                                     ![th].results = <<Results(rows, names)>>]
               /\ pc' = [pc EXCEPT ![th] = "put"]
               /\ cache' = cache
    /\ UNCHANGED <<ticks, now, visitors, calls, units, talkgroups, systems,
                   scen, served>>

\* lines 116-169 and 187-240: the cutoff, one connection, the name map and
\* the aggregate query; `fails` is the store raising (get_db or execute),
\* which lines 174-176 / 245-247 answer with 500 {"error": "internal_error"}
Query(th, fails) ==
    /\ pc[th] = "query"
    /\ LET r == req[th]
           cutoff == now - MAX_AGE
           names == get_system_name_map(systems)
           rows == Fetch(r.kind, calls, LabelTable(r.kind, units, talkgroups), cutoff)
       IN IF fails
          THEN /\ req' = [req EXCEPT ![th] =
                     OnStoreError([r EXCEPT !.cutoff = cutoff,
                                            !.attempts = r.attempts + 1,
                                            !.failed = TRUE])]
               /\ pc' = [pc EXCEPT ![th] = "done"]
          ELSE /\ req' = [req EXCEPT ![th].cutoff = cutoff,
                                     ![th].attempts = r.attempts + 1,
                                     ![th].results = <<Results(rows, names)>>]
               /\ pc' = [pc EXCEPT ![th] = "put"]
    /\ UNCHANGED <<ticks, now, cache, visitors, calls, units, talkgroups, systems,
                   scen, served>>

\* lines 171-172 and 242-243: set_cached_data(key, results); return
\* jsonify(results)
Put(th) ==
    /\ pc[th] = "put"
    /\ cache' = set_cached_data(cache, CacheKey(req[th].kind), req[th].results[1], now)
    /\ req' = [req EXCEPT ![th].status = 200, ![th].body = Body(req[th].results[1])]
    /\ pc' = [pc EXCEPT ![th] = "done"]
    /\ UNCHANGED <<ticks, now, visitors, calls, units, talkgroups, systems, scen, served>>

\* server_status reporting the cache active only while an entry is fresh
Status_fresh(th) ==
    /\ Arrive(th)
    /\ req' = [req EXCEPT ![th] =
           [IdleReq EXCEPT !.kind = "status", !.tget = now, !.status = 200,
                           !.report =
                               [active_visitors_5min |-> Cardinality(DOMAIN visitors),
                                active_ips |-> DOMAIN visitors,
                                cache_active |->
                                    \E k \in DOMAIN cache :
                                        now - cache[k].timestamp < CACHE_TIMEOUT]]]
    /\ pc' = [pc EXCEPT ![th] = "done"]
    /\ UNCHANGED <<ticks, now, cache, visitors, calls, units, talkgroups, systems, scen>>

\* server_status sweeping the expired records before it reports
Status_sweep(th) ==
    /\ Arrive(th)
    /\ visitors' = [i \in {j \in DOMAIN visitors : ~Expired(now, visitors[j])}
                        |-> visitors[i]]
    /\ req' = [req EXCEPT ![th] =
           [IdleReq EXCEPT !.kind = "status", !.tget = now, !.status = 200,
                           !.report =
                               [active_visitors_5min |-> Cardinality(DOMAIN visitors'),
                                active_ips |-> DOMAIN visitors',
                                cache_active |-> Cardinality(DOMAIN cache) > 0]]]
    /\ pc' = [pc EXCEPT ![th] = "done"]
    /\ UNCHANGED <<ticks, now, cache, calls, units, talkgroups, systems, scen>>

\* lines 251-258: server_status
Status(th) ==
    /\ Arrive(th)
    /\ req' = [req EXCEPT ![th] =
           [IdleReq EXCEPT !.kind = "status", !.tget = now, !.status = 200,
                           !.report =
                               [active_visitors_5min |-> Cardinality(DOMAIN visitors),
                                active_ips |-> DOMAIN visitors,
                                cache_active |-> Cardinality(DOMAIN cache) > 0]]]
    /\ pc' = [pc EXCEPT ![th] = "done"]
    /\ UNCHANGED <<ticks, now, cache, visitors, calls, units, talkgroups, systems, scen>>

\* the response has been sent; the worker thread is free again
Finish(th) ==
    /\ pc[th] = "done"
    /\ pc' = [pc EXCEPT ![th] = "idle"]
    /\ req' = [req EXCEPT ![th] = IdleReq]
    /\ UNCHANGED <<ticks, now, cache, visitors, calls, units, talkgroups, systems,
                   scen, served>>

\* ---------------------------------------------------------- the environment
\* time.time() / datetime.utcnow() advance
Tick(d) ==
    /\ ticks < MaxTicks
    /\ ticks' = ticks + 1
    /\ now' = now + d
    /\ UNCHANGED <<cache, visitors, calls, units, talkgroups, systems, pc, req,
                   scen, served>>

\* the scanner appends a call to rdioScannerCalls (the log is append-only)
AddCall(c) ==
    /\ c \notin calls
    /\ calls' = calls \cup {c}
    /\ UNCHANGED <<ticks, now, cache, visitors, units, talkgroups, systems, pc, req,
                   scen, served>>

\* ------------------------------------------------------------ initial states
\* the label tables and the systems table of the store the service reads
Label_F == <<70>>
Label_T == <<84>>

UnitRows ==
    {[systemId |-> 1, id |-> 1, label |-> Str(Label_F)],
     [systemId |-> 1, id |-> 2, label |-> Str(Label_F)],
     [systemId |-> 1, id |-> 3, label |-> Str(<<>>)]}

TalkgroupRows ==
    {[systemId |-> 1, id |-> 1, label |-> Str(Label_T)]}

SystemsTable ==
    [cols |-> {"id", "label"}, raises |-> FALSE,
     rows |-> (1 :> [label |-> "North"])]

\* lines 47-48: _cache = {}, _visitors = {}; no request is in flight
InitProcess ==
    /\ now = StartTime
    /\ cache = <<>>
    /\ visitors = <<>>
    /\ pc = [t \in Threads |-> "idle"]
    /\ req = [t \in Threads |-> IdleReq]
    /\ scen = ScenStart
    /\ served = 0
    /\ ticks = 0

Init ==
    /\ InitProcess
    /\ calls = {}
    /\ units = UnitRows
    /\ talkgroups = TalkgroupRows
    /\ systems = SystemsTable

\* ------------------------------------------------------- the specifications
Headers == {<<>>} \cup {<<i>> : i \in IPs}
TickSteps == {5, 10, 290, 390}

\* the call the scanner may log during a run: unit 2 on talkgroup 1, dated so
\* that it leaves the one-hour window 5 s after the start
NewCalls ==
    {[rowid |-> 1, dateTime |-> StartTime - MAX_AGE + 5, system |-> 1,
      source |-> 2, talkgroup |-> 1]}

\* the clock and the store are seen to change between requests and while a
\* request waits for the store (the other steps of a handler read neither
\* the store nor, after their first step, the clock)
MayTick == AllIdle \/ \E t \in Threads : pc[t] = "put"

\* one request at a time
MayArriveAlone == AllIdle /\ served < MaxReqs

SeqUnitsTouch ==
    \E cf \in Headers, remote \in IPs :
        MayArriveAlone /\ UnitsTouch(FreeThread, cf, remote)
SeqTalkgroupsGet == MayArriveAlone /\ TalkgroupsGet(FreeThread)
SeqStatus == MayArriveAlone /\ Status(FreeThread)

DoTvBegin == \E th \in Threads : TvBegin(th)
DoTvIter == \E th \in Threads : TvIter(th)
DoTvDel == \E th \in Threads : TvDel(th)
DoTvRet == \E th \in Threads : TvRet(th)
DoUnitsGet == \E th \in Threads : UnitsGet(th)
DoQuery == \E th \in Threads, fails \in BOOLEAN : Query(th, fails)
DoPut == \E th \in Threads : Put(th)
DoFinish == \E th \in Threads : Finish(th)
DoTick == \E d \in TickSteps : MayTick /\ Tick(d)
DoAddCall == \E c \in NewCalls : MayTick /\ AddCall(c)

Next ==
    \/ SeqUnitsTouch
    \/ SeqTalkgroupsGet
    \/ SeqStatus
    \/ DoTvBegin
    \/ DoTvIter
    \/ DoTvDel
    \/ DoTvRet
    \/ DoUnitsGet
    \/ DoQuery
    \/ DoPut
    \/ DoFinish
    \/ DoTick
    \/ DoAddCall

Spec == Init /\ [][Next]_vars

\* requests overlap: the development server runs each request on its own
\* thread (app.run, line 263)
MayArrive == served < MaxConcReqs /\ \E t \in Threads : pc[t] = "idle"

ConcUnitsTouch ==
    \E cf \in Headers, remote \in IPs :
        MayArrive /\ UnitsTouch(FreeThread, cf, remote)
ConcTalkgroupsGet == MayArrive /\ TalkgroupsGet(FreeThread)
ConcStatus == MayArrive /\ Status(FreeThread)

NextConc ==
    \/ ConcUnitsTouch
    \/ ConcTalkgroupsGet
    \/ ConcStatus
    \/ DoTvBegin
    \/ DoTvIter
    \/ DoTvDel
    \/ DoTvRet
    \/ DoUnitsGet
    \/ DoQuery
    \/ DoPut
    \/ DoFinish
    \/ DoTick
    \/ DoAddCall

\* the process some time after start: a visitor last seen 400 s ago may
\* still be in the map
InitConc ==
    /\ now = StartTime
    /\ cache = <<>>
    /\ visitors \in {<<>>, DictSet(<<>>, "A", StartTime - 400)}
    /\ pc = [t \in Threads |-> "idle"]
    /\ req = [t \in Threads |-> IdleReq]
    /\ scen = ScenStart
    /\ served = 0
    /\ ticks = 0
    /\ calls = {}
    /\ units = UnitRows
    /\ talkgroups = TalkgroupRows
    /\ systems = SystemsTable

SpecConc == InitConc /\ [][NextConc]_vars

\* requests one at a time and without end: the process keeps serving
\* requests, of whatever endpoint, and the clock advances while it can
LiveUnitsTouch ==
    \E cf \in Headers, remote \in IPs :
        AllIdle /\ UnitsTouch(FreeThread, cf, remote)
LiveTalkgroupsGet == AllIdle /\ TalkgroupsGet(FreeThread)
LiveStatus == AllIdle /\ Status(FreeThread)

Serve ==
    \/ LiveUnitsTouch
    \/ LiveTalkgroupsGet
    \/ LiveStatus
    \/ DoTvBegin
    \/ DoTvIter
    \/ DoTvDel
    \/ DoTvRet
    \/ DoUnitsGet
    \/ DoQuery
    \/ DoPut
    \/ DoFinish

NextLive ==
    \/ Serve
    \/ DoTick

SpecLive == Init /\ [][NextLive]_vars /\ WF_vars(DoTick) /\ WF_vars(Serve)

\* ----------------------------------------------- the aggregate on any store
\* label values: NULL, the empty string, a space, a tab, two names
Label_G == <<71>>
AggLabels == {NullLabel, Str(<<>>), Str(<<32>>), Str(<<9>>), Str(Label_F), Str(Label_G)}

\* label tables: entity 1 of system 1 is labelled F, entity 2 of system 1 and
\* entity 1 of system 2 carry any label, entity 2 of system 2 has no row
AggTables ==
    {{[systemId |-> 1, id |-> 1, label |-> Str(Label_F)],
      [systemId |-> 1, id |-> 2, label |-> a],
      [systemId |-> 2, id |-> 1, label |-> b]} : a \in AggLabels, b \in AggLabels}

\* call times: just outside the window, on its edge, inside it
AggTimes ==
    {StartTime - MAX_AGE - 1, StartTime - MAX_AGE, StartTime - MAX_AGE + 1}

\* the k-th call candidate: a time, a system and an entity id
AggEvent(k) ==
    [dateTime |-> StartTime - MAX_AGE - 1 + (k % 3),
     system |-> 1 + ((k \div 3) % 2),
     id |-> 1 + ((k \div 6) % 2)]

AggEvents == 0 .. 3 * 2 * 2 - 1

\* the bags of at most MaxAggCalls calls, rows numbered by rowid
AggCalls ==
    UNION {
        {{[rowid |-> i, dateTime |-> AggEvent(f[i]).dateTime,
           system |-> AggEvent(f[i]).system, source |-> AggEvent(f[i]).id,
           talkgroup |-> AggEvent(f[i]).id] : i \in 1 .. n} :
            f \in {g \in [1 .. n -> AggEvents] :
                       \A i \in 1 .. n - 1 : g[i] <= g[i + 1]}} :
        n \in 0 .. MaxAggCalls}

InitAgg ==
    /\ InitProcess
    /\ calls \in AggCalls
    /\ \E t \in AggTables : units = t /\ talkgroups = t
    /\ systems = SystemsTable

\* one request on each drawn store
AggUnitsTouch ==
    \E cf \in Headers, remote \in IPs :
        (AllIdle /\ served = 0) /\ UnitsTouch(FreeThread, cf, remote)
AggTalkgroupsGet == (AllIdle /\ served = 0) /\ TalkgroupsGet(FreeThread)

NextAgg ==
    \/ AggUnitsTouch
    \/ AggTalkgroupsGet
    \/ DoTvBegin
    \/ DoTvIter
    \/ DoTvRet
    \/ DoUnitsGet
    \/ DoQuery
    \/ DoPut
    \/ DoFinish

SpecAgg == InitAgg /\ [][NextAgg]_vars

\* ------------------------------------------------- the cache under overlap
\* overlapping snapshot requests of both kinds, the units requests all of
\* one caller; the clock may advance once, by CACHE_TIMEOUT, and the scanner
\* may log its call, while a request waits for the store or between requests
CacheUnitsTouch == MayArrive /\ UnitsTouch(FreeThread, <<>>, "A")
CacheTick == (MayTick /\ ticks = 0) /\ Tick(CACHE_TIMEOUT)

NextCache ==
    \/ CacheUnitsTouch
    \/ ConcTalkgroupsGet
    \/ DoTvBegin
    \/ DoTvIter
    \/ DoTvRet
    \/ DoUnitsGet
    \/ DoQuery
    \/ DoPut
    \/ DoFinish
    \/ CacheTick
    \/ DoAddCall

SpecCache == Init /\ [][NextCache]_vars

\* ------------------------------------------- the order and the row limit
\* stores of n labelled entities, one call each, every call well inside the
\* window: the calls all at one time, at one time two by two, or each at a
\* time of its own
OrderPatterns == {1, 2, 3}

\* <<n, pattern>>: small stores of every pattern, and stores of LIMIT and
\* of LIMIT + 1 entities
OrderStores ==
    ({2, 3} \X OrderPatterns) \cup {<<LIMIT, 2>>, <<LIMIT + 1, 2>>, <<LIMIT + 1, 3>>}

OrderLabel(k) == <<100 + k>>

OrderTable(n) ==
    {[systemId |-> 1, id |-> k, label |-> Str(OrderLabel(k))] : k \in 1 .. n}

OrderTime(pat, k) ==
    StartTime - MAX_AGE + 10 +
        (IF pat = 1 THEN 0 ELSE IF pat = 2 THEN k \div 2 ELSE k)

OrderCalls(n, pat) ==
    {[rowid |-> k, dateTime |-> OrderTime(pat, k), system |-> 1,
      source |-> k, talkgroup |-> k] : k \in 1 .. n}

InitOrder ==
    /\ InitProcess
    /\ \E st \in OrderStores :
           /\ calls = OrderCalls(st[1], st[2])
           /\ units = OrderTable(st[1])
           /\ talkgroups = OrderTable(st[1])
    /\ systems = SystemsTable

\* two requests on each store, one after the other, the store answering
\* both; between them the clock may advance by CACHE_TIMEOUT, so that the
\* second aggregates again
OrderUnitsTouch == (AllIdle /\ served < 2) /\ UnitsTouch(FreeThread, <<>>, "A")
OrderTalkgroupsGet == (AllIdle /\ served < 2) /\ TalkgroupsGet(FreeThread)
OrderTick == (AllIdle /\ served = 1 /\ ticks = 0) /\ Tick(CACHE_TIMEOUT)
OrderQuery == \E th \in Threads : Query(th, FALSE)

NextOrder ==
    \/ OrderUnitsTouch
    \/ OrderTalkgroupsGet
    \/ OrderTick
    \/ DoTvBegin
    \/ DoTvIter
    \/ DoTvRet
    \/ DoUnitsGet
    \/ OrderQuery
    \/ DoPut
    \/ DoFinish

SpecOrder == InitOrder /\ [][NextOrder]_vars

\* ------------------------------------------------------ the systems table
\* the systems table as the store may hold it: with a label column and a
\* row for system 1 only; missing; without any of the name columns; with
\* its query raising; with two of the name columns and a row per system;
\* with the last of the name columns only
NameTables ==
    {SystemsTable,
     [cols |-> {}, raises |-> FALSE, rows |-> <<>>],
     [cols |-> {"id", "alias"}, raises |-> FALSE, rows |-> (1 :> [alias |-> "North"])],
     [cols |-> {"id", "name"}, raises |-> TRUE, rows |-> (1 :> [name |-> "North"])],
     [cols |-> {"id", "name", "shortName"}, raises |-> FALSE,
      rows |-> <<[name |-> "North", shortName |-> "N"],
                 [name |-> "South", shortName |-> "S"]>>],
     [cols |-> {"id", "short_name"}, raises |-> FALSE,
      rows |-> (2 :> [short_name |-> "S"])]}

\* entity 1 of system 1 is labelled F, entity 1 of system 2 G, and each has
\* a call inside the window
NameRows ==
    {[systemId |-> 1, id |-> 1, label |-> Str(Label_F)],
     [systemId |-> 2, id |-> 1, label |-> Str(Label_G)]}

NameCalls ==
    {[rowid |-> k, dateTime |-> StartTime - k, system |-> k, source |-> 1,
      talkgroup |-> 1] : k \in {1, 2}}

InitNames ==
    /\ InitProcess
    /\ calls = NameCalls
    /\ units = NameRows
    /\ talkgroups = NameRows
    /\ systems \in NameTables

\* one request on each systems table
SpecNames == InitNames /\ [][NextAgg]_vars

\* ================================================================ claims
Snapshot(r) == r.kind \in {"units", "talkgroups"}

\* the request of thread th has looked into the cache
Looked(th) ==
    /\ Snapshot(req[th])
    /\ pc[th] \in {"query", "put", "done"}
    /\ req[th].body.error # "unhandled"

\* the age, at the lookup, of the entry the lookup found
EntryAge(r) == r.tget - r.entry[1].timestamp

\* C1: a snapshot request that finds an entry stored less than CACHE_TIMEOUT
\* ago, whatever the stored list (the empty list too), answers with that
\* list and asks the store nothing.
C1_HitWithinTtl ==
    \A th \in Threads :
        (/\ pc[th] = "done"
         /\ Looked(th)
         /\ req[th].entry # <<>>
         /\ EntryAge(req[th]) < CACHE_TIMEOUT)
        => /\ req[th].status = 200
           /\ req[th].body = Body(req[th].entry[1].data)
           /\ req[th].attempts = 0

\* C2: a lookup returns a stored value only when the entry is younger than
\* CACHE_TIMEOUT (strictly); with no entry, or one aged CACHE_TIMEOUT or
\* more, it returns None and the request asks the store; no answer served
\* from the cache is older than CACHE_TIMEOUT.
C2_FreshOnly ==
    \A th \in Threads :
        Looked(th) =>
            LET r == req[th]
            IN /\ r.cached # <<>> =>
                    /\ r.entry # <<>>
                    /\ EntryAge(r) < CACHE_TIMEOUT
                    /\ r.cached[1] = r.entry[1].data
               /\ (r.entry = <<>> \/ EntryAge(r) >= CACHE_TIMEOUT) =>
                    /\ r.cached = <<>>
                    /\ pc[th] = "done" => r.attempts = 1
               /\ (pc[th] = "done" /\ r.status = 200 /\ r.attempts = 0) =>
                    /\ r.entry # <<>>
                    /\ EntryAge(r) < CACHE_TIMEOUT

\* a request found an entry aged exactly CACHE_TIMEOUT and asked the store
C2_Witness ==
    \E th \in Threads :
        /\ pc[th] = "done"
        /\ Looked(th)
        /\ req[th].entry # <<>>
        /\ EntryAge(req[th]) = CACHE_TIMEOUT
        /\ req[th].attempts = 1

\* the map a touch of ip at tnow must leave, given the map before it
AfterTouch(pre, ip, tnow) ==
    LET ins == DictSet(pre, ip, tnow)
        kept == {i \in DOMAIN ins : tnow - ins[i] <= VISITOR_TIMEOUT}
    IN [i \in kept |-> ins[i]]

\* the request of thread th has returned from track_visitor
Touched(th) ==
    /\ req[th].kind = "units"
    /\ pc[th] \in {"get", "query", "put", "done"}
    /\ req[th].body.error # "unhandled"

\* C3: with requests one at a time, a touch at time now sets the caller's
\* last_seen to now, removes exactly the records older than VISITOR_TIMEOUT,
\* keeps the others (the caller among them) and returns the size of the map
\* it leaves.
C3_TouchSweeps ==
    \A th \in Threads :
        Touched(th) =>
            LET r == req[th]
            IN /\ visitors = AfterTouch(r.pre, r.ip, r.tnow)
               /\ r.ip \in DOMAIN visitors
               /\ visitors[r.ip] = r.tnow
               /\ r.count = Cardinality(DOMAIN visitors)
               /\ r.count >= 1

\* a touch removed an expired record
C3_Witness ==
    \E th \in Threads :
        /\ Touched(th)
        /\ pc[th] = "done"
        /\ (DOMAIN req[th].pre) \ (DOMAIN visitors) # {}

\* a touch kept a record aged exactly VISITOR_TIMEOUT
C3_WitnessKept ==
    \E th \in Threads :
        /\ Touched(th)
        /\ \E i \in DOMAIN visitors : req[th].tnow - visitors[i] = VISITOR_TIMEOUT

\* the run so far is touch("A") at t, touch("B") at t + 10, touch("A") at
\* t + 400, from the empty map
Scenario == scen.stage = 3

\* C4 as stated: after the scenario B and the refreshed A are in the map and
\* the third touch returns 2.
C4_AsStated ==
    Scenario =>
        /\ scen.count = 2
        /\ scen.after =
               DictSet(DictSet(<<>>, "A", scen.t0 + 400), "B", scen.t0 + 10)

\* C4, amended: after the scenario only the refreshed A is in the map (B,
\* last seen 390 s before the third touch, is swept with the stale A entry)
\* and the third touch returns 1.
C4_Amended ==
    Scenario =>
        /\ scen.count = 1
        /\ scen.after = DictSet(<<>>, "A", scen.t0 + 400)

C4_Witness == Scenario

\* C5: with requests overlapping, every touch completes without error and
\* returns the number of records the map held right after its own insert
\* and sweep.
C5_AtomicTouch ==
    \A th \in Threads :
        (pc[th] = "done" /\ req[th].kind = "units") =>
            /\ req[th].body.error # "unhandled"
            /\ req[th].count = req[th].swept

\* C6: the count and the identities status() reports include no identity
\* last seen more than VISITOR_TIMEOUT before the status call.
C6_StatusFresh ==
    \A th \in Threads :
        (pc[th] = "done" /\ req[th].kind = "status") =>
            /\ \A i \in req[th].report.active_ips :
                   req[th].tget - visitors[i] <= VISITOR_TIMEOUT
            /\ req[th].report.active_visitors_5min =
                   Cardinality({i \in DOMAIN visitors :
                                    req[th].tget - visitors[i] <= VISITOR_TIMEOUT})

\* the record of ip is older than VISITOR_TIMEOUT
Stale(ip) == ip \in DOMAIN visitors /\ now - visitors[ip] > VISITOR_TIMEOUT

\* C7: while the clock advances and requests (of any endpoint) keep being
\* served, every record older than VISITOR_TIMEOUT is eventually removed
\* from the map.
C7_EventuallyRemoved == \A ip \in IPs : Stale(ip) ~> ~Stale(ip)

\* C8: a snapshot request on which the store fails asks the store once and
\* ends with status 500 and the body {"error": "internal_error"}.
C8_StoreFailure ==
    \A th \in Threads :
        (pc[th] = "done" /\ Snapshot(req[th]) /\ req[th].failed) =>
            /\ req[th].attempts = 1
            /\ req[th].status = 500
            /\ req[th].body = ErrorBody("internal_error")

\* a request missed the cache and the store failed on it
C8_Witness ==
    \E th \in Threads :
        /\ pc[th] = "done"
        /\ Snapshot(req[th])
        /\ req[th].failed
        /\ req[th].cached = <<>>

\* the request of thread th has run the aggregate query
Aggregated(th) ==
    /\ Snapshot(req[th])
    /\ pc[th] \in {"put", "done"}
    /\ req[th].results # <<>>

RECURSIVE StripLeft(_)
StripLeft(s) ==
    IF s # <<>> /\ Head(s) \in {9, 10, 11, 12, 13, 32} THEN StripLeft(Tail(s)) ELSE s

RECURSIVE StripRight(_)
StripRight(s) ==
    IF s # <<>> /\ s[Len(s)] \in {9, 10, 11, 12, 13, 32}
    THEN StripRight(SubSeq(s, 1, Len(s) - 1)) ELSE s

\* a label is blank when it is NULL or empty once whitespace is trimmed
Blank(label) == label.null \/ StripRight(StripLeft(label.s)) = <<>>

\* the calls in the window that the label table of the kind gives label lbl
Carrying(kind, lbl, cutoff) ==
    {c \in calls :
        /\ c.dateTime >= cutoff
        /\ \E u \in LabelTable(kind, units, talkgroups) :
               /\ u.systemId = c.system
               /\ u.id = EntityId(kind, c)
               /\ u.label = Str(lbl)}

\* C9: the aggregated output holds each label at most once, no blank label
\* (NULL, or empty after trimming whitespace), and only labels carried by a
\* call inside the window.
C9_Dedup ==
    \A th \in Threads :
        Aggregated(th) =>
            LET out == req[th].results[1]
            IN /\ \A i, j \in 1 .. Len(out) : i # j => out[i].label # out[j].label
               /\ \A i \in 1 .. Len(out) :
                      /\ ~Blank(Str(out[i].label))
                      /\ Carrying(req[th].kind, out[i].label, req[th].cutoff) # {}

\* the qualifying calls of label lbl: in the window, joined to lbl, and lbl
\* not blank
Qualifying(kind, lbl, cutoff) ==
    IF Blank(Str(lbl)) THEN {} ELSE Carrying(kind, lbl, cutoff)

\* C10: each entity's seen_count is the number of qualifying calls of its
\* label, its last_seen their latest time, its identity and system_id their
\* least identity and least system.
C10_GroupValues ==
    \A th \in Threads :
        Aggregated(th) =>
            LET out == req[th].results[1]
                kind == req[th].kind
            IN \A i \in 1 .. Len(out) :
                   LET q == Qualifying(kind, out[i].label, req[th].cutoff)
                   IN /\ out[i].seen_count = Cardinality(q)
                      /\ out[i].last_seen_iso.t = Max({c.dateTime : c \in q})
                      /\ out[i].id = Min({EntityId(kind, c) : c \in q})
                      /\ out[i].system_id = Min({c.system : c \in q})

\* the entities of a list, as a set
Entities(out) == {out[i] : i \in 1 .. Len(out)}

QualifyingLabels(kind, cutoff) ==
    {u.label.s : u \in
        {v \in LabelTable(kind, units, talkgroups) :
            /\ ~Blank(v.label)
            /\ \E c \in calls : /\ c.dateTime >= cutoff
                                /\ c.system = v.systemId
                                /\ EntityId(kind, c) = v.id}}

\* the qualifying labels the list out leaves out
Omitted(kind, cutoff, out) ==
    QualifyingLabels(kind, cutoff) \ {out[i].label : i \in 1 .. Len(out)}

\* C12: no payload, aggregated, cached or answered, is longer than LIMIT;
\* an aggregation leaves a qualifying label out only when it holds LIMIT
\* entities, and no label left out was seen later than an entity it holds.
C12_AtMostLimit ==
    /\ \A k \in DOMAIN cache : Len(cache[k].data) <= LIMIT
    /\ \A th \in Threads :
           (Snapshot(req[th]) /\ req[th].status = 200) =>
               Len(req[th].body.data) <= LIMIT
    /\ \A th \in Threads :
           Aggregated(th) =>
               LET out == req[th].results[1]
                   kind == req[th].kind
                   cutoff == req[th].cutoff
                   left == Omitted(kind, cutoff, out)
               IN /\ Len(out) <= LIMIT
                  /\ left # {} => Len(out) = LIMIT
                  /\ \A lbl \in left, i \in 1 .. Len(out) :
                         Max({c.dateTime : c \in Qualifying(kind, lbl, cutoff)})
                             <= out[i].last_seen_iso.t

\* an aggregation on a store of more than LIMIT qualifying labels returned
\* LIMIT entities
C12_Witness ==
    \E th \in Threads :
        /\ Aggregated(th)
        /\ Len(req[th].results[1]) = LIMIT
        /\ Cardinality(QualifyingLabels(req[th].kind, req[th].cutoff)) > LIMIT

\* the step is one of the request thread th runs (its arrival and the
\* sending of its response included)
StepOf(th) == <<pc[th], req[th]>> # <<pc'[th], req'[th]>>

\* C13: no step of a talkgroups request, whether it hits the cache, misses
\* it or fails, changes the presence map; the map changes only in steps of
\* units requests.
C13_TalkgroupsNoPresence ==
    [][/\ \A th \in Threads :
              (/\ StepOf(th)
               /\ (req[th].kind = "talkgroups" \/ req'[th].kind = "talkgroups"))
              => visitors' = visitors
       /\ visitors' # visitors =>
              \E th \in Threads : StepOf(th) /\ req'[th].kind = "units"]_vars

\* a talkgroups request has ended in failure while the map holds a record
\* older than VISITOR_TIMEOUT
C13_Witness ==
    \E th \in Threads :
        /\ pc[th] = "done"
        /\ req[th].kind = "talkgroups"
        /\ req[th].failed
        /\ \E ip \in IPs : Stale(ip)

\* C14: no step of a status request changes the cache map or the presence
\* map, and a status request asks the store nothing and aggregates nothing.
C14_StatusReadOnly ==
    [][\A th \in Threads :
           (StepOf(th) /\ (req[th].kind = "status" \/ req'[th].kind = "status"))
           => /\ cache' = cache
              /\ visitors' = visitors
              /\ req'[th].attempts = 0
              /\ req'[th].results = <<>>]_vars

\* a status request has answered while the cache holds an entry and the
\* presence map a record older than VISITOR_TIMEOUT
C14_Witness ==
    \E th \in Threads :
        /\ pc[th] = "done"
        /\ req[th].kind = "status"
        /\ DOMAIN cache # {}
        /\ \E ip \in IPs : Stale(ip)

\* name resolution gives no name for system id: the query of the systems
\* table raises, the table is missing or has none of the name columns, or
\* it has no row for id
Unmapped(id) ==
    \/ systems.raises
    \/ systems.cols \cap {"name", "label", "shortName", "short_name"} = {}
    \/ id \notin DOMAIN systems.rows

\* C15: whatever the systems table, a snapshot request whose aggregate query
\* succeeds answers 200 with the aggregated entities, and every entity whose
\* system has no mapping carries system_name and agency "System <system_id>".
C15_NameFallback ==
    \A th \in Threads :
        (/\ pc[th] = "done"
         /\ Snapshot(req[th])
         /\ ~req[th].failed
         /\ req[th].attempts = 1)
        => LET out == req[th].body.data
           IN /\ req[th].status = 200
              /\ req[th].body.error = ""
              /\ {out[i].label : i \in 1 .. Len(out)}
                     = QualifyingLabels(req[th].kind, req[th].cutoff)
              /\ \A i \in 1 .. Len(out) :
                     Unmapped(out[i].system_id) =>
                         /\ out[i].system_name =
                                [text |-> "System ", sys |-> out[i].system_id]
                         /\ out[i].agency = out[i].system_name

\* a request has answered 200 with a fallback name while the query of the
\* systems table raises
C15_Witness ==
    \E th \in Threads :
        /\ pc[th] = "done"
        /\ Snapshot(req[th])
        /\ req[th].status = 200
        /\ systems.raises
        /\ \E i \in 1 .. Len(req[th].body.data) :
               req[th].body.data[i].system_name =
                   [text |-> "System ", sys |-> req[th].body.data[i].system_id]

\* the step is the cache lookup of the request thread th runs
LookupOf(th) ==
    /\ StepOf(th)
    /\ \/ pc[th] = "get"
       \/ pc[th] = "idle" /\ req'[th].kind = "talkgroups"

\* C16: with requests overlapping, every change of the cache map is one
\* whole put, the list of one request under its key with the time of that
\* put, the other key's entry untouched; and a lookup returns nothing or
\* the data of the one entry its key holds.
C16_WholeEntries ==
    [][/\ cache' # cache =>
              \E th \in Threads :
                  /\ StepOf(th)
                  /\ pc[th] = "put"
                  /\ cache' = DictSet(cache, CacheKey(req[th].kind),
                                      [timestamp |-> now,
                                       data |-> req[th].results[1]])
       /\ \A th \in Threads :
              LookupOf(th) =>
                  LET key == CacheKey(req'[th].kind)
                  IN /\ req'[th].entry =
                            (IF key \in DOMAIN cache THEN <<cache[key]>> ELSE <<>>)
                     /\ req'[th].cached # <<>> =>
                            /\ key \in DOMAIN cache
                            /\ req'[th].cached[1] = cache[key].data]_vars

\* two requests of one kind both missed: one has put its list over an
\* entry, the other is about to put
C16_Witness ==
    \E t1, t2 \in Threads :
        /\ t1 # t2
        /\ req[t1].kind = req[t2].kind
        /\ Snapshot(req[t1])
        /\ pc[t1] = "put"
        /\ pc[t2] = "done"
        /\ req[t2].results # <<>>
        /\ cache[CacheKey(req[t2].kind)].data = req[t2].results[1]

\* C17: from its first step on, so before it looks into the cache, and on
\* every path to its end (a hit, a miss that succeeds, a failure answered
\* 500, an uncaught error), a units request has the caller in the presence
\* map, with the time of the request as last_seen or, when a later request
\* of the same caller has refreshed it, a later one.  A request that has
\* lasted longer than VISITOR_TIMEOUT is left aside.
C17_PresenceFirst ==
    \A th \in Threads :
        (req[th].kind = "units" /\ now - req[th].tnow <= VISITOR_TIMEOUT) =>
            /\ req[th].ip \in DOMAIN visitors
            /\ visitors[req[th].ip] >= req[th].tnow
            /\ Looked(th) => req[th].tnow <= req[th].tget

\* C18: the cache map changes only in the put of a request that succeeds;
\* the step on which a request fails leaves the map as it is, with under
\* the request's key what the request found there at its lookup (no entry,
\* or the same entry), and the failed request has stored no list.
C18_FailureLeavesCache ==
    [][\A th \in Threads :
           StepOf(th) =>
               /\ cache' # cache =>
                      /\ pc[th] = "put"
                      /\ pc'[th] = "done"
                      /\ req'[th].status = 200
                      /\ ~req'[th].failed
               /\ req'[th].failed =>
                      /\ cache' = cache
                      /\ req'[th].results = <<>>
                      /\ req'[th].entry =
                             (IF CacheKey(req'[th].kind) \in DOMAIN cache'
                              THEN <<cache'[CacheKey(req'[th].kind)]>>
                              ELSE <<>>)]_vars

\* a request has failed on a key whose expired entry is still in the cache
C18_Witness ==
    \E th \in Threads :
        /\ pc[th] = "done"
        /\ Snapshot(req[th])
        /\ req[th].failed
        /\ req[th].entry # <<>>
        /\ CacheKey(req[th].kind) \in DOMAIN cache
        /\ cache[CacheKey(req[th].kind)] = req[th].entry[1]

\* C19: the cache map gets its first entry in the put of an aggregation
\* that succeeded, and every such put leaves an entry; no step removes an
\* entry; status() reports cache_active true exactly when the map holds an
\* entry, however old.
C19_CacheActive ==
    [][/\ DOMAIN cache \subseteq DOMAIN cache'
       /\ DOMAIN cache' # DOMAIN cache =>
              \E th \in Threads :
                  /\ StepOf(th)
                  /\ pc[th] = "put"
                  /\ req'[th].status = 200
                  /\ req'[th].attempts = 1
       /\ \A th \in Threads :
              /\ (StepOf(th) /\ pc[th] = "put") => DOMAIN cache' # {}
              /\ (StepOf(th) /\ req'[th].kind = "status") =>
                     req'[th].report.cache_active = (DOMAIN cache # {})]_vars

\* status() has reported the cache active while every entry is CACHE_TIMEOUT
\* old or older
C19_Witness ==
    \E th \in Threads :
        /\ pc[th] = "done"
        /\ req[th].kind = "status"
        /\ req[th].report.cache_active
        /\ \A k \in DOMAIN cache : req[th].tget - cache[k].timestamp >= CACHE_TIMEOUT

\* the time at which the request of thread th read the store
ReadAt(th) == req[th].cutoff + MAX_AGE

\* C20: with requests overlapping, a request that puts its list after
\* another request of the same kind has put a different list did not read
\* the store earlier than that other request.
C20_NoRegress ==
    [][\A t1, t2 \in Threads :
           (/\ t1 # t2
            /\ StepOf(t1)
            /\ pc[t1] = "put"
            /\ pc[t2] = "done"
            /\ req[t2].kind = req[t1].kind
            /\ req[t2].results # <<>>
            /\ req[t2].status = 200
            /\ req[t2].results # req[t1].results)
           => ReadAt(t1) >= ReadAt(t2)]_vars

====
